---- MODULE Spec2Model ----
(***************************************************************************)
(* BrightChain block engine: the encrypted-block factory from(...), the    *)
(* disk block store (DiskBlockAsyncStore) and the Shamir quorum seal       *)
(* (StaticHelpersSealing).                                                 *)
(*                                                                         *)
(* Buffers are run-length lists <<[n |-> count, b |-> byte], ...>> in      *)
(* canonical form (no empty run, no two adjacent runs of one byte), so     *)
(* that buffers of the real sizes (97, 512, 4096 bytes) are values the     *)
(* checker can compare byte for byte.                                      *)
(***************************************************************************)
EXTENDS Integers, Sequences, FiniteSets, TLC

VARIABLES
    now,            \* the clock (Date.now), in ticks
    fromIn,         \* arguments of the last from(...) call
    fromOut,        \* its outcome: a block or an error
    storeBlockSize, \* DiskBlockStore._blockSize
    files,          \* the block files on disk: checksum -> buffer, or NoFile
    dirs,           \* the shard directories on disk
    lastOp,         \* the last store call and its outcome
    stored,         \* history: key and data of the blocks whose setData returned normally
    writes,         \* history: checksum -> number of writeFileSync calls on its path
    wpc,            \* per writer process: position inside setData
    wblock,         \* per writer process: the block being stored
    wresult,        \* per writer process: outcome of its last setData
    okCount,        \* history: checksum -> number of setData calls that returned normally
    secretsBits,    \* the field width secrets.js is configured with (module state)
    sealIn,         \* arguments of the quorumSeal call
    sealed,         \* its outcome: a QuorumDataRecord or an error
    unsealIn,       \* the members given to quorumUnseal
    unsealOut,      \* its outcome: the value or an error
    xorIn,          \* the three buffers given to the XOR loop
    xorOut,         \* XOR(a, b, c) and XOR(XOR(a, b, c), b, c)
    tupleIn,        \* arguments of the last BlockHandleTuple call
    tupleOut,       \* its outcome: a tuple, a handle or an error
    pipe,           \* DiskBlockAsyncStore.xor: its streams and its promise
    rnd             \* getRandomBlocks: its locals and its position

fromVars  == <<fromIn, fromOut>>
diskVars  == <<storeBlockSize, files, dirs>>
storeVars == <<lastOp, stored, writes>>
concVars  == <<wpc, wblock, wresult, okCount>>
sealVars  == <<secretsBits, sealIn, sealed, unsealIn, unsealOut>>
composeVars == <<xorIn, xorOut, tupleIn, tupleOut, pipe, rnd>>
vars      == <<now, fromVars, diskVars, storeVars, concVars, sealVars, composeVars>>

-----------------------------------------------------------------------------
(* Bounds *)

MaxByte == 2
MaxNow  == 2
NumWriters == 2
MaxMembers == 3
LargeQuorum == 33

(* Program constants *)

eciesOverheadLength == 97
Message == 512
Small   == 4096

BlockSizes == {Message, Small}
Byte       == 0..MaxByte

-----------------------------------------------------------------------------
(* Buffers *)

RECURSIVE BufLen(_)
BufLen(buf) == IF buf = <<>> THEN 0 ELSE buf[1].n + BufLen(Tail(buf))

RECURSIVE Norm(_)
Norm(s) ==
    IF s = <<>> THEN <<>>
    ELSE LET h == Head(s)
             t == Norm(Tail(s))
         IN  IF h.n = 0 THEN t
             ELSE IF t # <<>> /\ t[1].b = h.b
                  THEN <<[n |-> h.n + t[1].n, b |-> h.b]>> \o Tail(t)
                  ELSE <<h>> \o t

\* buf.subarray(0, k)
RECURSIVE Take(_, _)
Take(buf, k) ==
    IF k <= 0 \/ buf = <<>> THEN <<>>
    ELSE IF buf[1].n <= k THEN <<buf[1]>> \o Take(Tail(buf), k - buf[1].n)
    ELSE <<[n |-> k, b |-> buf[1].b]>>

\* buf.subarray(k)
RECURSIVE Drop(_, _)
Drop(buf, k) ==
    IF buf = <<>> THEN <<>>
    ELSE IF k <= 0 THEN buf
    ELSE IF buf[1].n <= k THEN Drop(Tail(buf), k - buf[1].n)
    ELSE <<[n |-> buf[1].n - k, b |-> buf[1].b]>> \o Tail(buf)

Fill(n, b) == Norm(<<[n |-> n, b |-> b]>>)

\* source.copy(target, 0, 0, count): the first count bytes of target are
\* overwritten, the rest of target stays.
Copy(source, target, count) ==
    LET c == IF count < BufLen(target) THEN count ELSE BufLen(target)
    IN  Norm(Take(source, c) \o Drop(target, c))

\* crypto.randomBytes(n): every byte is drawn; the model draws buffers of one
\* run, and of two runs split at the ECIES header.
randomBytes(n) ==
    {Fill(n, r) : r \in Byte}
    \cup {Norm(<<[n |-> eciesOverheadLength, b |-> r]>>
                \o Fill(n - eciesOverheadLength, (r + 1) % (MaxByte + 1))) : r \in Byte}

Min(a, b) == IF a < b THEN a ELSE b

-----------------------------------------------------------------------------
(* Checksum: a digest of the bytes and of their positions, one of          *)
(* ChecksumSpace values, written as three digits (the real digest is a     *)
(* SHA-3 hash, written in hex).                                            *)

ChecksumSpace == 29

RECURSIVE WeightedSum(_, _)
WeightedSum(buf, offset) ==
    IF buf = <<>> THEN 0
    ELSE LET c == buf[1].n
             v == buf[1].b + 1
         IN  (v * ((c * (2 * offset + c + 1)) \div 2)
              + WeightedSum(Tail(buf), offset + c)) % ChecksumSpace

calculateChecksum(buf) == WeightedSum(buf, 0)

Checksums == 0..(ChecksumSpace - 1)


-----------------------------------------------------------------------------
(* Optional arguments: <<>> is undefined, <<v>> is the value v. *)

Undefined == <<>>
Some(v)   == <<v>>
OrElse(opt, default) == IF opt = Undefined THEN default ELSE opt[1]

-----------------------------------------------------------------------------
(* Block factory: TestEncryptedBlock.from *)

BlockValidationError(reason) == [kind |-> "error", reason |-> reason]

\* new ChecksumMismatchError(checksum, expected): the first argument is kept
\* as .checksum (the computed one), the second as .expected.
ChecksumMismatchError(checksum, expected) ==
    [kind |-> "error", reason |-> "ChecksumMismatch",
     checksum |-> checksum, expected |-> expected]

\* new TestEncryptedBlock(..., data, checksum, metadata, ...): the base block
\* constructor keeps data and checksum and rejects a creation date in the
\* future.
NewEncryptedBlock(blockSize, data, checksum, lengthWithoutPadding, dateCreated, clock) ==
    IF dateCreated > clock
    THEN BlockValidationError("FutureCreationDate")
    ELSE [kind |-> "block", blockSize |-> blockSize, data |-> data,
          idChecksum |-> checksum, dateCreated |-> dateCreated,
          lengthWithoutPadding |-> lengthWithoutPadding]

\* Mutant: the supplied checksum is taken without comparing it.
FromNoChecksumCheck(blockSize, data, checksum, dateCreated, actualDataLength, random, clock) ==
    IF BufLen(data) < eciesOverheadLength
    THEN BlockValidationError("DataLengthTooShort")
    ELSE IF BufLen(data) > blockSize
    THEN BlockValidationError("DataLengthExceedsCapacity")
    ELSE IF actualDataLength # Undefined
            /\ actualDataLength[1] > blockSize - eciesOverheadLength
    THEN BlockValidationError("DataLengthExceedsCapacity")
    ELSE LET finalData        == Copy(data, random, Min(BufLen(data), blockSize))
             computedChecksum == calculateChecksum(finalData)
         IN  NewEncryptedBlock(
                 blockSize, finalData,
                 OrElse(checksum, computedChecksum),
                 OrElse(actualDataLength, BufLen(data) - eciesOverheadLength),
                 OrElse(dateCreated, clock),
                 clock)

\* Mutant: the checksum is computed over the caller's data, not over the
\* padded buffer.
FromChecksumOfInput(blockSize, data, checksum, dateCreated, actualDataLength, random, clock) ==
    IF BufLen(data) < eciesOverheadLength
    THEN BlockValidationError("DataLengthTooShort")
    ELSE IF BufLen(data) > blockSize
    THEN BlockValidationError("DataLengthExceedsCapacity")
    ELSE IF actualDataLength # Undefined
            /\ actualDataLength[1] > blockSize - eciesOverheadLength
    THEN BlockValidationError("DataLengthExceedsCapacity")
    ELSE LET finalData        == Copy(data, random, Min(BufLen(data), blockSize))
             computedChecksum == calculateChecksum(data)
         IN  IF checksum # Undefined /\ computedChecksum # checksum[1]
             THEN ChecksumMismatchError(computedChecksum, checksum[1])
             ELSE NewEncryptedBlock(
                      blockSize, finalData,
                      OrElse(checksum, computedChecksum),
                      OrElse(actualDataLength, BufLen(data) - eciesOverheadLength),
                      OrElse(dateCreated, clock),
                      clock)

\* from(type, dataType, blockSize, data, checksum, creator, dateCreated,
\*      actualDataLength): random is the outcome of randomBytes(blockSize),
\* clock the time of the call.
From(blockSize, data, checksum, dateCreated, actualDataLength, random, clock) ==
    IF BufLen(data) < eciesOverheadLength
    THEN BlockValidationError("DataLengthTooShort")
    ELSE IF BufLen(data) > blockSize
    THEN BlockValidationError("DataLengthExceedsCapacity")
    ELSE IF actualDataLength # Undefined
            /\ actualDataLength[1] > blockSize - eciesOverheadLength
    THEN BlockValidationError("DataLengthExceedsCapacity")
    ELSE LET finalData        == Copy(data, random, Min(BufLen(data), blockSize))
             computedChecksum == calculateChecksum(finalData)
         IN  IF checksum # Undefined /\ computedChecksum # checksum[1]
             THEN ChecksumMismatchError(computedChecksum, checksum[1])
             ELSE NewEncryptedBlock(
                      blockSize, finalData,
                      OrElse(checksum, computedChecksum),
                      OrElse(actualDataLength, BufLen(data) - eciesOverheadLength),
                      OrElse(dateCreated, clock),
                      clock)

\* The getters of an encrypted block, as the tests pin them: the overhead is
\* the ECIES header, the capacity what the block size leaves after it, the
\* payload the bytes after the header, and payloadLength, for a block of
\* blockSize bytes of data, blockSize.
totalOverhead(block) == eciesOverheadLength
capacity(block) == block.blockSize - totalOverhead(block)
payload(block) == Drop(block.data, totalOverhead(block))
payloadLength(block) == block.blockSize

\* The callers' buffers: createEncryptedData(size) and randomBytes(size) of the
\* tests, a first byte followed by one run.
DataLengths(blockSize) ==
    {eciesOverheadLength - 1, eciesOverheadLength, eciesOverheadLength + 1,
     blockSize - 1, blockSize, blockSize + 1}

DataOfLength(len) ==
    {Norm(<<[n |-> 1, b |-> p]>> \o Fill(len - 1, q)) : p \in Byte, q \in {0, 1}}

NoCall == [kind |-> "none", op |-> "none", seq |-> 0]

FromArguments ==
    UNION {UNION {UNION {UNION {
        {[kind |-> "args", op |-> "from", seq |-> 0, blockSize |-> blockSize,
          data |-> data, checksum |-> checksum, dateCreated |-> dateCreated,
          actualDataLength |-> actualDataLength, random |-> random, clock |-> 0] :
            checksum \in {Undefined,
                          Some(calculateChecksum(data)),
                          Some(calculateChecksum(Copy(data, random, Min(len, blockSize)))),
                          Some((calculateChecksum(data) + 1) % ChecksumSpace)},
            dateCreated \in {Undefined, Some(1), Some(MaxNow + 1)},
            actualDataLength \in {Undefined,
                                  Some(blockSize - eciesOverheadLength),
                                  Some(blockSize - eciesOverheadLength + 1)}} :
        random \in randomBytes(blockSize)} :
        data \in DataOfLength(len)} :
        len \in DataLengths(blockSize)} :
        blockSize \in BlockSizes}

\* One call of from(...) with the arguments drawn at the start.
CallFrom ==
    /\ fromIn.kind = "args"
    /\ fromIn' = [fromIn EXCEPT !.kind = "from", !.clock = now]
    /\ fromOut' = From(fromIn.blockSize, fromIn.data, fromIn.checksum,
                       fromIn.dateCreated, fromIn.actualDataLength,
                       fromIn.random, now)
    /\ UNCHANGED <<composeVars, now, diskVars, storeVars, concVars, sealVars>>


-----------------------------------------------------------------------------
(* Raw data blocks and the disk layout *)

\* new RawDataBlock(blockSize, data, dateCreated, checksum, ...)
RawDataBlock(blockSize, data, dateCreated, checksum) ==
    [kind |-> "block", blockSize |-> blockSize, data |-> data,
     idChecksum |-> checksum, dateCreated |-> dateCreated]

\* block.validate(): recompute the checksum over data, match the stored one,
\* recheck the date. TRUE when validate() returns, FALSE when it throws.
validate(block, clock) ==
    /\ calculateChecksum(block.data) = block.idChecksum
    /\ block.dateCreated <= clock

\* The hex form of a checksum: three digits.
HexDigits(key) == <<key \div 9, (key \div 3) % 3, key % 3>>

\* <root>/<sizeString>/<hex[0:2]>/<hex[2:4]>/<fullHex>
blockDir(size, key) == <<size, HexDigits(key)[1], HexDigits(key)[2]>>
blockPath(size, key) == blockDir(size, key) \o <<key>>

\* ensureBlockPath(key): mkdir -p of the block's directory.
ensureBlockPath(ds, size, key) ==
    ds \cup {SubSeq(blockDir(size, key), 1, i) : i \in 1..3}

existsSync(fs, path) == path \in DOMAIN fs

\* The file at path after open(path, 'w') and a write of data at time clock.
PutFile(fs, path, data, clock) ==
    [p \in DOMAIN fs \cup {path} |->
        IF p = path
        THEN [data |-> data,
              birthtime |-> IF path \in DOMAIN fs THEN fs[path].birthtime ELSE clock]
        ELSE fs[p]]

\* writeFileSync(path, data): it returns with the file written, or it throws;
\* it throws before the file is opened (nothing on disk) or after, in the
\* middle of the write loop (the file is there, with a prefix of data).
writeFileSync(fs, path, data, clock) ==
    {[files |-> PutFile(fs, path, data, clock), opened |-> TRUE, threw |-> FALSE],
     [files |-> fs, opened |-> FALSE, threw |-> TRUE],
     [files |-> PutFile(fs, path, Take(data, BufLen(data) \div 2), clock),
      opened |-> TRUE, threw |-> TRUE]}

StoreError(reason) == [kind |-> "error", reason |-> reason]
Returned == [kind |-> "ok"]

\* Mutant: setData without the existsSync test.
SetDataChecksNoExists(block, size, fs, clock) ==
    IF block.blockSize # size
    THEN StoreError("BlockSizeMismatch")
    ELSE IF ~validate(block, clock)
    THEN StoreError("BlockValidationFailed")
    ELSE Returned

\* setData up to the write: the error it throws, or Returned when it gets to
\* ensureBlockPath.
SetDataChecks(block, size, fs, clock) ==
    IF block.blockSize # size
    THEN StoreError("BlockSizeMismatch")
    ELSE IF existsSync(fs, blockPath(size, block.idChecksum))
    THEN StoreError("BlockPathAlreadyExists")
    ELSE IF ~validate(block, clock)
    THEN StoreError("BlockValidationFailed")
    ELSE Returned

\* Mutant: the catch around writeFileSync swallows the error.
SetDataOutcomesSwallow(block, size, fs, ds, clock) ==
    LET checks == SetDataChecks(block, size, fs, clock)
        path   == blockPath(size, block.idChecksum)
    IN  IF checks # Returned
        THEN {[files |-> fs, dirs |-> ds, wrote |-> FALSE, result |-> checks]}
        ELSE {[files |-> w.files,
               dirs |-> ensureBlockPath(ds, size, block.idChecksum),
               wrote |-> w.opened,
               result |-> Returned] :
                w \in writeFileSync(fs, path, block.data, clock)}

\* Mutant: ensureBlockPath is called before the block is validated.
SetDataOutcomesEnsureFirst(block, size, fs, ds, clock) ==
    LET checks == SetDataChecks(block, size, fs, clock)
        path   == blockPath(size, block.idChecksum)
    IN  IF checks = StoreError("BlockSizeMismatch")
           \/ checks = StoreError("BlockPathAlreadyExists")
        THEN {[files |-> fs, dirs |-> ds, wrote |-> FALSE, result |-> checks]}
        ELSE IF checks # Returned
        THEN {[files |-> fs, dirs |-> ensureBlockPath(ds, size, block.idChecksum),
               wrote |-> FALSE, result |-> checks]}
        ELSE {[files |-> w.files,
               dirs |-> ensureBlockPath(ds, size, block.idChecksum),
               wrote |-> w.opened,
               result |-> IF w.threw THEN StoreError("BlockDirectoryCreationFailed")
                          ELSE Returned] :
                w \in writeFileSync(fs, path, block.data, clock)}

\* setData(block): the outcomes [files, dirs, wrote, result] of one call.
SetDataOutcomes(block, size, fs, ds, clock) ==
    LET checks == SetDataChecks(block, size, fs, clock)
        path   == blockPath(size, block.idChecksum)
    IN  IF checks # Returned
        THEN {[files |-> fs, dirs |-> ds, wrote |-> FALSE, result |-> checks]}
        ELSE {[files |-> w.files,
               dirs |-> ensureBlockPath(ds, size, block.idChecksum),
               wrote |-> w.opened,
               result |-> IF w.threw THEN StoreError("BlockDirectoryCreationFailed")
                          ELSE Returned] :
                w \in writeFileSync(fs, path, block.data, clock)}

\* has(key)
has(size, fs, key) == existsSync(fs, blockPath(size, key))

\* getData(key)
getData(size, fs, key) ==
    LET path == blockPath(size, key)
    IN  IF ~existsSync(fs, path) THEN StoreError("KeyNotFound")
        ELSE IF BufLen(fs[path].data) # size THEN StoreError("BlockFileSizeMismatch")
        ELSE RawDataBlock(size, fs[path].data, fs[path].birthtime, key)

\* get(key): a handle, never an error; nothing is read.
get(size, key) ==
    [kind |-> "handle", idChecksum |-> key, blockSize |-> size,
     path |-> blockPath(size, key)]

\* The blocks callers hand to setData: data of exactly blockSize bytes, with
\* the matching checksum or another one, created before or after now.
BlockData(size) == {Fill(size, q) : q \in Byte}

InputBlocks(clock) ==
    UNION {UNION {{RawDataBlock(size, data, date, checksum) :
                      date \in {clock - 1, clock + 1},
                      checksum \in {calculateChecksum(data),
                                    (calculateChecksum(data) + 1) % ChecksumSpace}} :
                  data \in BlockData(size)} :
           size \in BlockSizes}


-----------------------------------------------------------------------------
(* Quorum sealing (StaticHelpersSealing). The Shamir primitive is          *)
(* secrets.js: arithmetic in GF(2^bits), a share is the string             *)
(* <bits in base 36><id in hex><data in hex>. Strings are sequences of     *)
(* character values (0..35), bit strings are sequences of 0 and 1. The     *)
(* symmetric key has two bytes where the program's has 32, and the pad     *)
(* length of share() is 8 bits where the library's is 128: a share of the  *)
(* model has an odd number of characters exactly when the program's has,   *)
(* for every field of 3 to 8 bits.                                         *)

MinimumShares == 2
MaximumShares == 1048575

\* secrets.js: config.bits before any init, the pad length of share().
DefaultBits == 8
PadLength == 8

SealingError(reason) == [kind |-> "error", reason |-> reason]

\* a ^ b of JavaScript: the exclusive or of the binary digits
BitXor[a \in Nat, b \in Nat] ==
    IF a = 0 THEN b
    ELSE IF b = 0 THEN a
    ELSE (((a % 2) + (b % 2)) % 2) + 2 * BitXor[a \div 2, b \div 2]

Pow2(k) == 2 ^ k

Max(a, b) == IF a > b THEN a ELSE b

\* Math.ceil(Math.log2(n)) for n >= 1
CeilLog2(n) == CHOOSE b \in 0..21 : Pow2(b) >= n /\ (b = 0 \/ Pow2(b - 1) < n)

\* secrets.js defaults.primitivePolynomials, by field width
PrimitivePolynomial(bits) ==
    <<0, 1, 3, 3, 5, 3, 3, 29, 17, 9, 5, 83, 27, 43, 3, 45, 9, 39, 39, 9>>[bits]

\* The field GF(2^bits): addition is BitXor, multiplication is modulo the
\* primitive polynomial (the library works with tables of logarithms).
GFDouble(a, bits) ==
    IF 2 * a >= Pow2(bits)
    THEN BitXor[2 * a, Pow2(bits) + PrimitivePolynomial(bits)]
    ELSE 2 * a

GFMul[a \in Nat, b \in Nat, bits \in Nat] ==
    IF b = 0 THEN 0
    ELSE BitXor[IF b % 2 = 1 THEN a ELSE 0, GFMul[GFDouble(a, bits), b \div 2, bits]]

GFInv[a \in Nat, bits \in Nat] == CHOOSE c \in 1..(Pow2(bits) - 1) : GFMul[a, c, bits] = 1

GFPow[x \in Nat, k \in Nat, bits \in Nat] ==
    IF k = 0 THEN 1 ELSE GFMul[x, GFPow[x, k - 1, bits], bits]

RECURSIVE XorAll(_, _)
XorAll(f, S) ==
    IF S = {} THEN 0
    ELSE LET i == CHOOSE i \in S : TRUE IN BitXor[f[i], XorAll(f, S \ {i})]

RECURSIVE MulAll(_, _, _)
MulAll(f, S, bits) ==
    IF S = {} THEN 1
    ELSE LET i == CHOOSE i \in S : TRUE IN GFMul[f[i], MulAll(f, S \ {i}, bits), bits]

\* horner(x, coeffs): the value at x of coeffs[1] + coeffs[2] x + coeffs[3] x^2 + ...
horner(x, coeffs, bits) ==
    XorAll([k \in 1..Len(coeffs) |-> GFMul[coeffs[k], GFPow[x, k - 1, bits], bits]],
           1..Len(coeffs))

\* lagrange(0, x, y)
lagrange(x, y, bits) ==
    LET I == DOMAIN x
        term(i) ==
            GFMul[y[i],
                  MulAll([j \in I \ {i} |->
                            GFMul[x[j], GFInv[BitXor[x[i], x[j]], bits], bits]],
                         I \ {i}, bits),
                  bits]
    IN  XorAll([i \in I |-> term(i)], I)

\* Bit strings and hex strings
Zeros(n) == [i \in 1..n |-> 0]

padLeft(str, multipleOfBits) ==
    IF Len(str) % multipleOfBits = 0 THEN str
    ELSE Zeros(multipleOfBits - (Len(str) % multipleOfBits)) \o str

RECURSIVE BinToInt(_)
BinToInt(bin) ==
    IF bin = <<>> THEN 0 ELSE 2 * BinToInt(SubSeq(bin, 1, Len(bin) - 1)) + bin[Len(bin)]

\* Number.toString(2)
RECURSIVE IntToBin(_)
IntToBin(n) == IF n < 2 THEN <<n>> ELSE IntToBin(n \div 2) \o <<n % 2>>

\* Number.toString(16)
RECURSIVE IntToHex(_)
IntToHex(n) == IF n < 16 THEN <<n>> ELSE IntToHex(n \div 16) \o <<n % 16>>

RECURSIVE HexToInt(_)
HexToInt(hex) ==
    IF hex = <<>> THEN 0 ELSE 16 * HexToInt(SubSeq(hex, 1, Len(hex) - 1)) + hex[Len(hex)]

\* four binary digits for each hex digit
hex2bin(hex) ==
    [p \in 1..(4 * Len(hex)) |->
        (hex[((p - 1) \div 4) + 1] \div Pow2(3 - ((p - 1) % 4))) % 2]

BinToHexDigits(bin) ==
    [i \in 1..(Len(bin) \div 4) |->
        8 * bin[4 * i - 3] + 4 * bin[4 * i - 2] + 2 * bin[4 * i - 1] + bin[4 * i]]

bin2hex(bin) == BinToHexDigits(padLeft(bin, 4))

\* splitNumStringToIntArray: the parts of bits digits, the rightmost first;
\* the last part is what is left at the front of the string
SplitFromRight(str, bits) ==
    [c \in 1..((Len(str) + bits - 1) \div bits) |->
        BinToInt(SubSeq(str, Max(1, Len(str) - c * bits + 1), Len(str) - (c - 1) * bits))]

splitNumStringToIntArray(str, padLength, bits) ==
    SplitFromRight(IF padLength = 0 THEN str ELSE padLeft(str, padLength), bits)

\* the parts written back as one bit string, bits digits each, the first part
\* rightmost
JoinParts(parts, bits) ==
    [p \in 1..(Len(parts) * bits) |->
        (parts[Len(parts) - ((p - 1) \div bits)] \div Pow2(bits - 1 - ((p - 1) % bits))) % 2]

IdLength(bits) == Len(IntToHex(Pow2(bits) - 1))

constructPublicShareString(bits, id, data) ==
    <<bits>> \o SubSeq(Zeros(IdLength(bits)) \o IntToHex(id),
                       Len(IntToHex(id)) + 1, Len(IntToHex(id)) + IdLength(bits))
             \o data

\* The coefficients the generator draws for one part of the secret: never 0.
Coefficients(seed, part, count, bits) ==
    [k \in 1..count |-> ((seed + part + k) % (Pow2(bits) - 1)) + 1]

\* secrets.share(secret, numShares, threshold) throws unless
\* 2 <= numShares <= 2^bits - 1 and 2 <= threshold <= numShares.
SecretsShareThrows(bits, numShares, threshold) ==
    \/ numShares < 2
    \/ numShares > Pow2(bits) - 1
    \/ threshold < 2
    \/ threshold > Pow2(bits) - 1
    \/ threshold > numShares

SecretsShare(secret, numShares, threshold, seed, bits) ==
    LET parts == splitNumStringToIntArray(<<1>> \o hex2bin(secret), PadLength, bits)
        y(id) == [c \in 1..Len(parts) |->
                    horner(id, <<parts[c]>> \o Coefficients(seed, c, threshold - 1, bits),
                           bits)]
    IN  [id \in 1..numShares |->
            constructPublicShareString(bits, id, bin2hex(JoinParts(y(id), bits)))]

\* extractShareComponents(share): the share does not parse when a character
\* is not a hex digit, the width is not in 3..20, the data is empty or the
\* id is not in 1..2^bits - 1.
ShareIsValid(share) ==
    /\ Len(share) >= 1
    /\ share[1] \in 3..20
    /\ Len(share) >= 1 + IdLength(share[1]) + 1
    /\ \A i \in 2..Len(share) : share[i] <= 15
    /\ HexToInt(SubSeq(share, 2, 1 + IdLength(share[1]))) \in 1..(Pow2(share[1]) - 1)

extractShareComponents(share) ==
    [bits |-> share[1],
     id   |-> HexToInt(SubSeq(share, 2, 1 + IdLength(share[1]))),
     data |-> SubSeq(share, 2 + IdLength(share[1]), Len(share))]

\* the shares whose id no earlier share has, in their order
FirstOfEachId(components) ==
    LET keep == {i \in 1..Len(components) :
                    \A j \in 1..(i - 1) : components[j].id # components[i].id}
    IN  [k \in 1..Cardinality(keep) |->
            components[CHOOSE i \in keep : Cardinality({j \in keep : j <= i}) = k]]

\* result.slice(result.indexOf("1") + 1)
DropToMarker(bin) ==
    LET ones == {i \in 1..Len(bin) : bin[i] = 1}
    IN  IF ones = {} THEN bin
        ELSE SubSeq(bin, (CHOOSE i \in ones : \A j \in ones : i <= j) + 1, Len(bin))

SecretsCombineThrows(shares) ==
    \/ shares = <<>>
    \/ \E i \in 1..Len(shares) : ~ShareIsValid(shares[i])
    \/ \E i \in 1..Len(shares) : shares[i][1] # shares[1][1]

\* secrets.combine(shares): a share of an id already seen is skipped; every
\* part is interpolated at 0; the digits up to the marker bit are dropped.
SecretsCombine(shares) ==
    LET used  == FirstOfEachId([i \in 1..Len(shares) |-> extractShareComponents(shares[i])])
        bits  == used[1].bits
        x     == [i \in 1..Len(used) |-> used[i].id]
        split == [i \in 1..Len(used) |->
                    splitNumStringToIntArray(hex2bin(used[i].data), 0, bits)]
        part(i, c) == IF c <= Len(split[i]) THEN split[i][c] ELSE 0
        secret == [c \in 1..Len(split[1]) |->
                     lagrange(x, [i \in 1..Len(used) |-> part(i, c)], bits)]
        result == JoinParts(secret, bits)
    IN  bin2hex(DropToMarker(result))

\* Buffer.from(string, 'hex'): two digits a byte, up to the first character
\* that is no hex digit; a last digit without a partner is dropped.
HexPrefix(str) ==
    LET bad == {i \in 1..Len(str) : str[i] > 15}
    IN  IF bad = {} THEN str
        ELSE SubSeq(str, 1, (CHOOSE i \in bad : \A j \in bad : i <= j) - 1)

HexToBuffer(str) ==
    LET digits == HexPrefix(str)
    IN  [i \in 1..(Len(digits) \div 2) |-> 16 * digits[2 * i - 1] + digits[2 * i]]

\* buffer.toString('hex')
BufferToHex(bytes) ==
    [i \in 1..(2 * Len(bytes)) |->
        IF i % 2 = 1 THEN bytes[(i + 1) \div 2] \div 16 ELSE bytes[i \div 2] % 16]

\* StaticHelpersSymmetric and StaticHelpersECIES: what is encrypted under a
\* key is read back with that key, and with no other.
symmetricEncryptJson(data, key) ==
    [key |-> key, encryptedData |-> [sealedWith |-> key, json |-> data]]

SymmetricDecryptThrows(encryptedData, key) == key # encryptedData.sealedWith
symmetricDecryptJson(encryptedData, key) == encryptedData.json

EciesEncrypt(memberId, buffer) == [to |-> memberId, plain |-> buffer]
EciesDecryptThrows(privateKey, encrypted) == privateKey # encrypted.to
decryptWithHeader(privateKey, encrypted) == encrypted.plain
EciesError == [kind |-> "error", reason |-> "DecryptionFailure"]

\* reinitSecrets(maxShares), lines 26-43: the width secrets.init is given
reinitSecrets(maxShares) ==
    IF maxShares < MinimumShares \/ maxShares > MaximumShares
    THEN SealingError("InvalidBitRange")
    ELSE LET bits == Max(3, CeilLog2(maxShares))
         IN  IF bits < 3 \/ bits > 20
             THEN SealingError("InvalidBitRange")
             ELSE [kind |-> "ok", bits |-> bits]

\* validateQuorumSealInputs, lines 45-62, of an array of that length
validateQuorumSealInputs(length, sharesRequired) ==
    IF length < MinimumShares THEN SealingError("NotEnoughMembersToUnlock")
    ELSE IF length > MaximumShares THEN SealingError("TooManyMembersToUnlock")
    ELSE IF \/ OrElse(sharesRequired, length) < MinimumShares
            \/ OrElse(sharesRequired, length) > length
    THEN SealingError("NotEnoughMembersToUnlock")
    ELSE Returned

\* encryptSharesForMembers, lines 210-238: the map from member id to the
\* encrypted bytes of the member's share
encryptSharesForMembers(shares, members) ==
    IF Len(shares) # Len(members) THEN SealingError("NotEnoughMembersToUnlock")
    ELSE [kind |-> "ok",
          map  |-> [id \in {members[i] : i \in 1..Len(members)} |->
                      LET i == CHOOSE i \in 1..Len(members) :
                                  /\ members[i] = id
                                  /\ \A j \in (i + 1)..Len(members) : members[j] # id
                      IN  EciesEncrypt(id, HexToBuffer(shares[i]))]]

\* quorumSeal up to the split of the key, lines 78-94, for an array of that
\* length: the error thrown, or the field width and the threshold in use.
quorumSealSplit(length, sharesRequired) ==
    LET valid == validateQuorumSealInputs(length, sharesRequired)
        init  == reinitSecrets(length)
    IN  IF valid.kind = "error" THEN valid
        ELSE IF init.kind = "error" THEN init
        ELSE IF SecretsShareThrows(init.bits, length, OrElse(sharesRequired, length))
        THEN [kind |-> "error", reason |-> "Error"]
        ELSE [kind |-> "ok", bits |-> init.bits,
              sharesRequired |-> OrElse(sharesRequired, length)]

\* quorumSeal, lines 72-106. key and seed are what the random generator
\* gives: the symmetric key and the coefficients of the polynomials.
quorumSeal(data, amongstMembers, sharesRequired, key, seed) ==
    LET split == quorumSealSplit(Len(amongstMembers), sharesRequired)
        encryptedData == symmetricEncryptJson(data, key)
        keyShares == SecretsShare(BufferToHex(encryptedData.key), Len(amongstMembers),
                                  split.sharesRequired, seed, split.bits)
        encryptedSharesByMemberId == encryptSharesForMembers(keyShares, amongstMembers)
    IN  IF split.kind = "error" THEN split
        ELSE IF encryptedSharesByMemberId.kind = "error" THEN encryptedSharesByMemberId
        ELSE [kind |-> "record",
              memberIds |-> amongstMembers,
              sharesRequired |-> split.sharesRequired,
              encryptedData |-> encryptedData.encryptedData,
              encryptedSharesByMemberId |-> encryptedSharesByMemberId.map]

\* the width secrets.js is left with by quorumSeal
BitsAfterSeal(length, sharesRequired, bits) ==
    IF validateQuorumSealInputs(length, sharesRequired).kind = "error" THEN bits
    ELSE IF reinitSecrets(length).kind = "error" THEN bits
    ELSE reinitSecrets(length).bits

allMembersHavePrivateKey(members) ==
    \A i \in 1..Len(members) : members[i].privateKeyLoaded

\* decryptShares, lines 127-155
decryptShares(document, membersWithPrivateKey) ==
    IF Len(membersWithPrivateKey) < document.sharesRequired
    THEN SealingError("NotEnoughMembersToUnlock")
    ELSE IF ~allMembersHavePrivateKey(membersWithPrivateKey)
    THEN SealingError("MissingPrivateKeys")
    ELSE LET NotFound(i) ==
                 membersWithPrivateKey[i].id \notin DOMAIN document.encryptedSharesByMemberId
             Throws(i) ==
                 \/ NotFound(i)
                 \/ EciesDecryptThrows(
                        membersWithPrivateKey[i].privateKey,
                        document.encryptedSharesByMemberId[membersWithPrivateKey[i].id])
             first == CHOOSE i \in 1..Len(membersWithPrivateKey) :
                         Throws(i) /\ \A j \in 1..(i - 1) : ~Throws(j)
         IN  IF \E i \in 1..Len(membersWithPrivateKey) : Throws(i)
             THEN IF NotFound(first) THEN SealingError("EncryptedShareNotFound")
                                     ELSE EciesError
             ELSE [kind |-> "ok",
                   shares |-> [i \in 1..Len(membersWithPrivateKey) |->
                        BufferToHex(decryptWithHeader(
                            membersWithPrivateKey[i].privateKey,
                            document.encryptedSharesByMemberId[membersWithPrivateKey[i].id]))]]

\* Mutant: the data is returned whether or not the key opens it.
quoromUnsealWithSharesAnyKey(document, recoveredShares) ==
    LET init == reinitSecrets(Cardinality(DOMAIN document.encryptedSharesByMemberId))
        key  == HexToBuffer(SecretsCombine(recoveredShares))
    IN  IF init.kind = "error" THEN SealingError("FailedToSeal")
        ELSE IF SecretsCombineThrows(recoveredShares) THEN SealingError("FailedToSeal")
        ELSE [kind |-> "value", value |-> symmetricDecryptJson(document.encryptedData, key)]

\* quoromUnsealWithShares, lines 182-202
quoromUnsealWithShares(document, recoveredShares) ==
    LET init == reinitSecrets(Cardinality(DOMAIN document.encryptedSharesByMemberId))
        key  == HexToBuffer(SecretsCombine(recoveredShares))
    IN  IF init.kind = "error" THEN SealingError("FailedToSeal")
        ELSE IF SecretsCombineThrows(recoveredShares) THEN SealingError("FailedToSeal")
        ELSE IF SymmetricDecryptThrows(document.encryptedData, key)
        THEN SealingError("FailedToSeal")
        ELSE [kind |-> "value", value |-> symmetricDecryptJson(document.encryptedData, key)]

\* quorumUnseal, lines 163-174
quorumUnseal(document, membersWithPrivateKey) ==
    IF Len(membersWithPrivateKey) < document.sharesRequired
    THEN SealingError("NotEnoughMembersToUnlock")
    ELSE LET shares == decryptShares(document, membersWithPrivateKey)
         IN  IF shares.kind = "error" THEN shares
             ELSE quoromUnsealWithShares(document, shares.shares)

\* the width secrets.js is left with by quorumUnseal: combine sets the width
\* its first share names
BitsAfterUnseal(document, membersWithPrivateKey, bits) ==
    LET shares == decryptShares(document, membersWithPrivateKey)
        init   == reinitSecrets(Cardinality(DOMAIN document.encryptedSharesByMemberId))
    IN  IF shares.kind = "error" \/ init.kind = "error" THEN bits
        ELSE IF SecretsCombineThrows(shares.shares) THEN init.bits
        ELSE shares.shares[1][1]

-----------------------------------------------------------------------------
(* The store, one call at a time (the calls of one process: setData and    *)
(* getData are synchronous, has and get do not touch the disk twice).      *)

Keys == {b.idChecksum : b \in InputBlocks(1)}

Bump(counts, key) ==
    [k \in DOMAIN counts \cup {key} |->
        IF k = key THEN (IF key \in DOMAIN counts THEN counts[key] + 1 ELSE 1)
        ELSE counts[k]]

SetData ==
    /\ \E block \in InputBlocks(now) :
       \E out \in SetDataOutcomes(block, storeBlockSize, files, dirs, now) :
          /\ files' = out.files
          /\ dirs' = out.dirs
          /\ lastOp' = [op |-> "setData", seq |-> 1 - lastOp.seq, block |-> block,
                        result |-> out.result]
          /\ stored' = IF out.result = Returned
                       THEN stored \cup {[idChecksum |-> block.idChecksum,
                                         data |-> block.data]}
                       ELSE stored
          /\ writes' = IF out.wrote THEN Bump(writes, block.idChecksum) ELSE writes
    /\ UNCHANGED <<composeVars, now, storeBlockSize, fromVars, concVars, sealVars>>

Has ==
    /\ \E key \in Keys :
          lastOp' = [op |-> "has", seq |-> 1 - lastOp.seq, key |-> key,
                     result |-> has(storeBlockSize, files, key)]
    /\ UNCHANGED <<composeVars, now, diskVars, stored, writes, fromVars, concVars, sealVars>>

Get ==
    /\ \E key \in Keys :
          lastOp' = [op |-> "get", seq |-> 1 - lastOp.seq, key |-> key, result |-> get(storeBlockSize, key)]
    /\ UNCHANGED <<composeVars, now, diskVars, stored, writes, fromVars, concVars, sealVars>>

GetData ==
    /\ \E key \in Keys :
          lastOp' = [op |-> "getData", seq |-> 1 - lastOp.seq, key |-> key,
                     result |-> getData(storeBlockSize, files, key)]
    /\ UNCHANGED <<composeVars, now, diskVars, stored, writes, fromVars, concVars, sealVars>>

Writers == 1..NumWriters

Init ==
    /\ now = 1
    /\ fromIn = NoCall
    /\ fromOut = NoCall
    /\ storeBlockSize \in BlockSizes
    /\ files = <<>>
    /\ dirs = {}
    /\ lastOp = NoCall
    /\ stored = {}
    /\ writes = <<>>
    /\ wpc = [w \in Writers |-> "idle"]
    /\ wblock = [w \in Writers |-> NoCall]
    /\ wresult = [w \in Writers |-> NoCall]
    /\ okCount = <<>>
    /\ secretsBits = DefaultBits
    /\ sealIn = NoCall
    /\ sealed = NoCall
    /\ unsealIn = NoCall
    /\ unsealOut = NoCall
    /\ xorIn = NoCall
    /\ xorOut = NoCall
    /\ tupleIn = NoCall
    /\ tupleOut = NoCall
    /\ pipe = NoCall
    /\ rnd = NoCall

Next == SetData \/ Has \/ Get \/ GetData

Spec == Init /\ [][Next]_vars

InitFrom ==
    /\ now \in 1..MaxNow
    /\ fromIn \in FromArguments
    /\ fromOut = NoCall
    /\ storeBlockSize = Small
    /\ files = <<>>
    /\ dirs = {}
    /\ lastOp = NoCall
    /\ stored = {}
    /\ writes = <<>>
    /\ wpc = [w \in Writers |-> "idle"]
    /\ wblock = [w \in Writers |-> NoCall]
    /\ wresult = [w \in Writers |-> NoCall]
    /\ okCount = <<>>
    /\ secretsBits = DefaultBits
    /\ sealIn = NoCall
    /\ sealed = NoCall
    /\ unsealIn = NoCall
    /\ unsealOut = NoCall
    /\ xorIn = NoCall
    /\ xorOut = NoCall
    /\ tupleIn = NoCall
    /\ tupleOut = NoCall
    /\ pipe = NoCall
    /\ rnd = NoCall

NextFrom == CallFrom

SpecFrom == InitFrom /\ [][NextFrom]_vars


-----------------------------------------------------------------------------
(* Claims about the store, one call at a time *)

SetDataStep == lastOp'.op = "setData" /\ lastOp'.seq # lastOp.seq

ValidationErrors ==
    {StoreError("BlockSizeMismatch"), StoreError("BlockPathAlreadyExists"),
     StoreError("BlockValidationFailed")}

\* C2: every block file at blockPath(k) holds exactly blockSize bytes whose
\* checksum is k.
C2_FileInvariant ==
    \A path \in DOMAIN files :
        /\ path = blockPath(storeBlockSize, path[4])
        /\ BufLen(files[path].data) = storeBlockSize
        /\ calculateChecksum(files[path].data) = path[4]

\* C3: once setData(block) has returned, has(block.idChecksum) is true and
\* getData(block.idChecksum) is a block with the bytes of block.data.
C3_SetThenHasAndGetData ==
    \A block \in stored :
        /\ has(storeBlockSize, files, block.idChecksum)
        /\ getData(storeBlockSize, files, block.idChecksum).kind = "block"
        /\ getData(storeBlockSize, files, block.idChecksum).data = block.data

C3_Witness ==
    /\ lastOp.op = "getData"
    /\ lastOp.result.kind = "block"
    /\ \E block \in stored :
          block.idChecksum = lastOp.key /\ block.data = lastOp.result.data

\* C4: no step changes or removes a file that is on disk, no path is opened
\* for writing more than once, and a setData of a block of the store's size
\* whose path is on disk fails with BlockPathAlreadyExists.
C4_ImmutableByKey ==
    [][/\ \A path \in DOMAIN files :
             path \in DOMAIN files' /\ files'[path] = files[path]
       /\ \A key \in DOMAIN writes' : writes'[key] <= 1
       /\ (/\ SetDataStep
           /\ lastOp'.block.blockSize = storeBlockSize
           /\ existsSync(files, blockPath(storeBlockSize, lastOp'.block.idChecksum)))
          => lastOp'.result = StoreError("BlockPathAlreadyExists")]_vars

C4_Witness ==
    /\ lastOp.op = "setData"
    /\ lastOp.result = StoreError("BlockPathAlreadyExists")
    /\ \E block \in stored : block.idChecksum = lastOp.block.idChecksum
    /\ writes[lastOp.block.idChecksum] = 1

\* C5: a setData that fails with BlockSizeMismatch, BlockPathAlreadyExists or
\* BlockValidationFailed leaves every file and every directory as it was.
C5_ValidationFailureChangesNothing ==
    [][(SetDataStep /\ lastOp'.result \in ValidationErrors)
          => (files' = files /\ dirs' = dirs)]_vars

C5_Witness ==
    /\ lastOp.op = "setData"
    /\ lastOp.result = StoreError("BlockValidationFailed")
    /\ ~existsSync(files, blockPath(storeBlockSize, lastOp.block.idChecksum))
    /\ blockDir(storeBlockSize, lastOp.block.idChecksum) \notin dirs
    /\ files # <<>>


-----------------------------------------------------------------------------
(* Claims about from(...) *)

\* The buffer from(...) checksums: the caller's data over the random bytes.
FinalBufferOfCall ==
    Copy(fromIn.data, fromIn.random, Min(BufLen(fromIn.data), fromIn.blockSize))

LengthsAccepted ==
    /\ fromIn.kind = "from"
    /\ BufLen(fromIn.data) >= eciesOverheadLength
    /\ BufLen(fromIn.data) <= fromIn.blockSize
    /\ \/ fromIn.actualDataLength = Undefined
       \/ fromIn.actualDataLength[1] <= fromIn.blockSize - eciesOverheadLength

\* C6: a block returned by from(...) has blockSize bytes of data, its
\* idChecksum is the checksum of that data, and the data starts with the
\* caller's bytes, with or without a supplied checksum.
C6_BlockFromFactory ==
    fromOut.kind = "block" =>
        /\ BufLen(fromOut.data) = fromIn.blockSize
        /\ fromOut.blockSize = fromIn.blockSize
        /\ fromOut.idChecksum = calculateChecksum(fromOut.data)
        /\ Take(fromOut.data, BufLen(fromIn.data)) = fromIn.data

C6_Witness ==
    /\ fromOut.kind = "block"
    /\ fromIn.checksum # Undefined
    /\ BufLen(fromIn.data) < fromIn.blockSize
    /\ Drop(fromOut.data, BufLen(fromIn.data)) # Drop(fromIn.data, 1)

\* C7: from(...) fails with the first of: DataLengthTooShort,
\* DataLengthExceedsCapacity (data), DataLengthExceedsCapacity
\* (actualDataLength), FutureCreationDate, ChecksumMismatch.
C7_ValidationOrder ==
    fromIn.kind = "from" =>
        IF BufLen(fromIn.data) < eciesOverheadLength
        THEN fromOut = BlockValidationError("DataLengthTooShort")
        ELSE IF ~LengthsAccepted
        THEN fromOut = BlockValidationError("DataLengthExceedsCapacity")
        ELSE IF fromIn.dateCreated # Undefined /\ fromIn.dateCreated[1] > fromIn.clock
        THEN fromOut = BlockValidationError("FutureCreationDate")
        ELSE IF fromIn.checksum # Undefined
                /\ fromIn.checksum[1] # calculateChecksum(FinalBufferOfCall)
        THEN fromOut.kind = "error" /\ fromOut.reason = "ChecksumMismatch"
        ELSE fromOut.kind = "block"

\* C8: a supplied checksum that is not the checksum of the final buffer makes
\* from(...) fail with ChecksumMismatch, expected being the supplied checksum
\* and checksum the one computed over the final buffer.
C8_ChecksumMismatchFields ==
    (/\ LengthsAccepted
     /\ fromIn.checksum # Undefined
     /\ fromIn.checksum[1] # calculateChecksum(FinalBufferOfCall))
    => /\ fromOut.kind = "error"
       /\ fromOut.reason = "ChecksumMismatch"
       /\ fromOut.expected = fromIn.checksum[1]
       /\ fromOut.checksum = calculateChecksum(FinalBufferOfCall)

C8_Witness ==
    /\ fromOut.kind = "error"
    /\ fromOut.reason = "ChecksumMismatch"
    /\ fromOut.expected = calculateChecksum(fromIn.data)
    /\ fromOut.checksum # fromOut.expected
    /\ BufLen(fromIn.data) < fromIn.blockSize

\* C18: an encrypted block of any block size has totalOverhead 97, capacity
\* blockSize - 97, a payload of blockSize - 97 bytes, and a payloadLength of
\* blockSize - totalOverhead.
C18_EncryptedBlockOverhead ==
    (fromIn.kind = "from" /\ fromOut.kind = "block") =>
        /\ totalOverhead(fromOut) = 97
        /\ capacity(fromOut) = fromOut.blockSize - 97
        /\ BufLen(payload(fromOut)) = fromOut.blockSize - 97
        /\ payloadLength(fromOut) = fromOut.blockSize - totalOverhead(fromOut)


-----------------------------------------------------------------------------
(* Concurrent writers: tasks of the one process, each about to call        *)
(* setData. setData is synchronous (it has no await), so the event loop    *)
(* runs each call to its end; the tasks' calls come in any order.          *)

\* The task runs: store.setData(block), lines 97-127.
W_SetData(w) ==
    /\ wpc[w] = "ready"
    /\ \E out \in SetDataOutcomes(wblock[w], storeBlockSize, files, dirs, now) :
          /\ files' = out.files
          /\ dirs' = out.dirs
          /\ wresult' = [wresult EXCEPT ![w] = out.result]
          /\ okCount' = IF out.result = Returned
                        THEN Bump(okCount, wblock[w].idChecksum)
                        ELSE okCount
    /\ wpc' = [wpc EXCEPT ![w] = "idle"]
    /\ UNCHANGED <<composeVars, now, storeBlockSize, wblock, storeVars, fromVars, sealVars>>

\* The blocks the tasks were created with.
TaskBlocks(clock) == {block \in InputBlocks(clock) : block.dateCreated <= clock}

InitConc ==
    /\ now = 1
    /\ fromIn = NoCall
    /\ fromOut = NoCall
    /\ storeBlockSize \in BlockSizes
    /\ files = <<>>
    /\ dirs = {}
    /\ lastOp = NoCall
    /\ stored = {}
    /\ writes = <<>>
    /\ wpc = [w \in Writers |-> "ready"]
    /\ wblock \in [Writers -> TaskBlocks(1)]
    /\ wresult = [w \in Writers |-> NoCall]
    /\ okCount = <<>>
    /\ secretsBits = DefaultBits
    /\ sealIn = NoCall
    /\ sealed = NoCall
    /\ unsealIn = NoCall
    /\ unsealOut = NoCall
    /\ xorIn = NoCall
    /\ xorOut = NoCall
    /\ tupleIn = NoCall
    /\ tupleOut = NoCall
    /\ pipe = NoCall
    /\ rnd = NoCall

NextConc == \E w \in Writers : W_SetData(w)

SpecConc == InitConc /\ [][NextConc]_vars

-----------------------------------------------------------------------------
(* Quorum sealing: one quorumSeal call, then one quorumUnseal call on the  *)
(* record it returned. The inputs of quorumSeal, and what the random       *)
(* generator gives it, are drawn at the start.                             *)

SealedValues == {"hello", "world"}
SymmetricKeys == {<<3, 172>>, <<240, 1>>}
RandomSeeds == {0, 4}

RECURSIVE Ascending(_)
Ascending(S) ==
    IF S = {} THEN <<>>
    ELSE LET m == CHOOSE m \in S : \A o \in S : m <= o
         IN  <<m>> \o Ascending(S \ {m})

Reverse(seq) == [i \in 1..Len(seq) |-> seq[Len(seq) + 1 - i]]

SubsetLists(n) ==
    {Ascending(S) : S \in SUBSET (1..n)} \cup {Reverse(Ascending(S)) : S \in SUBSET (1..n)}

\* Member lists of distinct ids: the small quorums in both orders, one large
\* (sealed with a small threshold).
MemberLists == SubsetLists(MaxMembers) \cup {[i \in 1..LargeQuorum |-> i]}

SealArguments ==
    UNION {
        {[kind |-> "args", value |-> value, amongstMembers |-> amongstMembers,
          sharesRequired |-> sharesRequired, key |-> key, seed |-> seed] :
            value \in SealedValues,
            sharesRequired \in
                (IF Len(amongstMembers) <= MaxMembers THEN {Undefined} ELSE {})
                    \cup {Some(t) : t \in 1..(MaxMembers + 1)},
            key \in SymmetricKeys,
            seed \in RandomSeeds} :
        amongstMembers \in MemberLists}

\* The private key of the key pair of a member, and a key of another pair.
KeyOf(id) == id
ForeignKey == 0

\* The members given to quorumUnseal: a list of distinct members, the list
\* with its first member once more, the list with one more member; all with
\* their private key loaded, or all but member 1; the list of distinct
\* members whose first member holds a key that is not the one its share was
\* encrypted to; and one member given two times or more.
UnsealMembers ==
    UNION {
        {[i \in 1..Len(ids) |-> [id |-> ids[i], privateKeyLoaded |-> ids[i] # unloaded,
                                 privateKey |-> KeyOf(ids[i])]] :
            ids \in {base,
                     IF base = <<>> THEN base ELSE base \o <<base[1]>>,
                     base \o <<MaxMembers + 1>>}} :
        base \in SubsetLists(MaxMembers), unloaded \in {0, 1}}
    \cup {[i \in 1..Len(base) |-> [id |-> base[i], privateKeyLoaded |-> TRUE,
                                    privateKey |-> IF i = 1 THEN ForeignKey
                                                   ELSE KeyOf(base[i])]] :
             base \in SubsetLists(MaxMembers) \ {<<>>}}
    \cup {[i \in 1..n |-> [id |-> id, privateKeyLoaded |-> TRUE, privateKey |-> KeyOf(id)]] :
             id \in 1..MaxMembers, n \in 2..MaxMembers}

Seal ==
    /\ sealIn.kind = "args"
    /\ sealIn' = [sealIn EXCEPT !.kind = "quorumSeal"]
    /\ sealed' = quorumSeal(sealIn.value, sealIn.amongstMembers, sealIn.sharesRequired,
                            sealIn.key, sealIn.seed)
    /\ secretsBits' = BitsAfterSeal(Len(sealIn.amongstMembers), sealIn.sharesRequired,
                                    secretsBits)
    /\ UNCHANGED <<composeVars, now, fromVars, diskVars, storeVars, concVars, unsealIn, unsealOut>>

Unseal ==
    /\ sealed.kind = "record"
    /\ unsealOut = NoCall
    /\ \E membersWithPrivateKey \in UnsealMembers :
          /\ unsealIn' = membersWithPrivateKey
          /\ unsealOut' = quorumUnseal(sealed, membersWithPrivateKey)
          /\ secretsBits' = BitsAfterUnseal(sealed, membersWithPrivateKey, secretsBits)
    /\ UNCHANGED <<composeVars, now, fromVars, diskVars, storeVars, concVars, sealIn, sealed>>

InitSeal ==
    /\ now = 1
    /\ fromIn = NoCall
    /\ fromOut = NoCall
    /\ storeBlockSize = Small
    /\ files = <<>>
    /\ dirs = {}
    /\ lastOp = NoCall
    /\ stored = {}
    /\ writes = <<>>
    /\ wpc = [w \in Writers |-> "idle"]
    /\ wblock = [w \in Writers |-> NoCall]
    /\ wresult = [w \in Writers |-> NoCall]
    /\ okCount = <<>>
    /\ secretsBits = DefaultBits
    /\ sealIn \in SealArguments
    /\ sealed = NoCall
    /\ unsealIn = NoCall
    /\ unsealOut = NoCall
    /\ xorIn = NoCall
    /\ xorOut = NoCall
    /\ tupleIn = NoCall
    /\ tupleOut = NoCall
    /\ pipe = NoCall
    /\ rnd = NoCall

NextSeal == Seal \/ Unseal

SpecSeal == InitSeal /\ [][NextSeal]_vars

\* The members of the list given to quorumUnseal are distinct members of the
\* sealed record.
UnsealListIsSubset ==
    /\ \A i \in 1..Len(unsealIn) :
          unsealIn[i].id \in {sealed.memberIds[j] : j \in 1..Len(sealed.memberIds)}
    /\ \A i, j \in 1..Len(unsealIn) : unsealIn[i].id = unsealIn[j].id => i = j

\* Each member of the list holds the private key of its own key pair.
HoldOwnKeys == \A i \in 1..Len(unsealIn) : unsealIn[i].privateKey = KeyOf(unsealIn[i].id)

Unsealed == sealed.kind = "record" /\ unsealOut # NoCall

\* C9: whatever quorumSeal accepted, quorumUnseal of its record with a list of
\* sharesRequired distinct members of the record, private keys loaded, returns
\* the sealed value, and with a list of sharesRequired - 1 members it fails
\* with NotEnoughMembersToUnlock.
C9_QuorumRoundTrip ==
    Unsealed =>
        /\ ( /\ UnsealListIsSubset
             /\ Len(unsealIn) = sealed.sharesRequired
             /\ allMembersHavePrivateKey(unsealIn)
             /\ HoldOwnKeys )
           => unsealOut = [kind |-> "value", value |-> sealIn.value]
        /\ ( /\ UnsealListIsSubset
             /\ Len(unsealIn) = sealed.sharesRequired - 1 )
           => unsealOut = SealingError("NotEnoughMembersToUnlock")

\* quorumUnseal got past the checks of its arguments: enough members, all
\* with a private key loaded, each with a share in the record.
UnsealArgumentsPass ==
    /\ Len(unsealIn) >= sealed.sharesRequired
    /\ allMembersHavePrivateKey(unsealIn)
    /\ \A i \in 1..Len(unsealIn) :
          unsealIn[i].id \in DOMAIN sealed.encryptedSharesByMemberId

\* C17: a quorumUnseal that fails after the checks of its arguments (in the
\* ECIES decryption of a share, in the combination of the shares or in the
\* symmetric decryption) fails with the SealingError FailedToSeal.
C17_CryptoFailureIsFailedToSeal ==
    (Unsealed /\ UnsealArgumentsPass /\ unsealOut.kind = "error") =>
        unsealOut = SealingError("FailedToSeal")

-----------------------------------------------------------------------------
(* quorumSeal's acceptance of its inputs, as a function of the length of   *)
(* the member array and of sharesRequired.                                 *)

MemberCounts ==
    (0..(MaxMembers + 1)) \cup {Pow2(k) + d : k \in 3..20, d \in {-1, 0, 1}}

SealLengths ==
    UNION {
        {[kind |-> "lengths", length |-> length, sharesRequired |-> sharesRequired] :
            sharesRequired \in {Undefined}
                \cup {Some(t) : t \in {0, 1, 2, 3, length - 1, length, length + 1}}} :
        length \in MemberCounts}

CheckSealInputs ==
    /\ sealIn.kind = "lengths"
    /\ sealIn' = [sealIn EXCEPT !.kind = "quorumSealSplit"]
    /\ sealed' = quorumSealSplit(sealIn.length, sealIn.sharesRequired)
    /\ secretsBits' = BitsAfterSeal(sealIn.length, sealIn.sharesRequired, secretsBits)
    /\ UNCHANGED <<composeVars, now, fromVars, diskVars, storeVars, concVars, unsealIn, unsealOut>>

InitSealInputs ==
    /\ now = 1
    /\ fromIn = NoCall
    /\ fromOut = NoCall
    /\ storeBlockSize = Small
    /\ files = <<>>
    /\ dirs = {}
    /\ lastOp = NoCall
    /\ stored = {}
    /\ writes = <<>>
    /\ wpc = [w \in Writers |-> "idle"]
    /\ wblock = [w \in Writers |-> NoCall]
    /\ wresult = [w \in Writers |-> NoCall]
    /\ okCount = <<>>
    /\ secretsBits = DefaultBits
    /\ sealIn \in SealLengths
    /\ sealed = NoCall
    /\ unsealIn = NoCall
    /\ unsealOut = NoCall
    /\ xorIn = NoCall
    /\ xorOut = NoCall
    /\ tupleIn = NoCall
    /\ tupleOut = NoCall
    /\ pipe = NoCall
    /\ rnd = NoCall

NextSealInputs == CheckSealInputs

SpecSealInputs == InitSealInputs /\ [][NextSealInputs]_vars

InputsInRange ==
    /\ sealIn.length >= MinimumShares
    /\ sealIn.length <= MaximumShares
    /\ OrElse(sealIn.sharesRequired, sealIn.length) >= MinimumShares
    /\ OrElse(sealIn.sharesRequired, sealIn.length) <= sealIn.length

\* C10: quorumSeal accepts its inputs exactly when the number of members is
\* in 2..1048575 and sharesRequired (the number of members when omitted) is
\* in 2..members.length; otherwise it fails with TooManyMembersToUnlock (too
\* many members) or NotEnoughMembersToUnlock.
C10_SealInputsAccepted ==
    sealIn.kind = "quorumSealSplit" =>
        /\ sealed.kind = "ok" <=> InputsInRange
        /\ ~InputsInRange =>
              sealed = IF sealIn.length > MaximumShares
                       THEN SealingError("TooManyMembersToUnlock")
                       ELSE SealingError("NotEnoughMembersToUnlock")

\* The members of the record that the list given to quorumUnseal names.
DistinctRecordMembers ==
    {unsealIn[i].id : i \in 1..Len(unsealIn)}
        \cap {sealed.memberIds[j] : j \in 1..Len(sealed.memberIds)}

\* C21: a quorumUnseal whose list names fewer than sharesRequired distinct
\* members of the record ends in an error and does not return the value,
\* also when a repeated member brings the list to sharesRequired entries.
C21_RepeatedMemberNeverUnseals ==
    (Unsealed /\ Cardinality(DistinctRecordMembers) < sealed.sharesRequired) =>
        /\ unsealOut.kind = "error"
        /\ unsealOut # [kind |-> "value", value |-> sealIn.value]

C21_Witness ==
    /\ Unsealed
    /\ sealed.sharesRequired = 3
    /\ Len(unsealIn) = 3
    /\ Cardinality(DistinctRecordMembers) = 1
    /\ UnsealArgumentsPass
    /\ HoldOwnKeys
    /\ unsealOut = SealingError("FailedToSeal")

\* C20: for every number of members reinitSecrets accepts (2..1048575) the
\* width it configures is max(3, ceil(log2(n))), lies in 3..20 and holds n
\* shares: 2^bits - 1 >= n.
C20_FieldWidthHoldsShares ==
    (sealIn.kind = "quorumSealSplit" /\ InputsInRange) =>
        /\ secretsBits = Max(3, CeilLog2(sealIn.length))
        /\ secretsBits \in 3..20
        /\ Pow2(secretsBits) - 1 >= sealIn.length

-----------------------------------------------------------------------------
(* XOR composition: the loop of BlockHandleTuple.xor over the loaded block *)
(* data.                                                                   *)

\* Every variable but the composition ones, as after construction.
IdleBase ==
    /\ now = 1
    /\ fromIn = NoCall
    /\ fromOut = NoCall
    /\ lastOp = NoCall
    /\ stored = {}
    /\ writes = <<>>
    /\ wpc = [w \in Writers |-> "idle"]
    /\ wblock = [w \in Writers |-> NoCall]
    /\ wresult = [w \in Writers |-> NoCall]
    /\ okCount = <<>>
    /\ secretsBits = DefaultBits
    /\ sealIn = NoCall
    /\ sealed = NoCall
    /\ unsealIn = NoCall
    /\ unsealOut = NoCall

HandleTupleError(reason) == [kind |-> "error", reason |-> reason]

\* Mutant: the bytes are or-ed.
RECURSIVE XorBuffersOr(_, _)
XorBuffersOr(x, y) ==
    IF x = <<>> \/ y = <<>> THEN <<>>
    ELSE LET c == Min(x[1].n, y[1].n)
         IN  Norm(<<[n |-> c, b |-> Max(x[1].b, y[1].b)]>>
                  \o XorBuffersOr(Drop(x, c), Drop(y, c)))

\* xored[j] = result[j] ^ current[j] for every j of result, lines 500-503:
\* the two buffers have one length.
RECURSIVE XorBuffers(_, _)
XorBuffers(x, y) ==
    IF x = <<>> \/ y = <<>> THEN <<>>
    ELSE LET c == Min(x[1].n, y[1].n)
         IN  Norm(<<[n |-> c, b |-> BitXor[x[1].b, y[1].b]]>>
                  \o XorBuffers(Drop(x, c), Drop(y, c)))

\* The loop of lines 494-505 from index i on; result is the buffer so far.
RECURSIVE XorLoop(_, _, _)
XorLoop(result, blockData, i) ==
    IF i > Len(blockData) THEN [kind |-> "ok", data |-> result]
    ELSE IF BufLen(blockData[i]) # BufLen(result)
    THEN HandleTupleError("BlockSizesMustMatch")
    ELSE XorLoop(XorBuffers(result, blockData[i]), blockData, i + 1)

\* lines 493-505
XorBlockData(blockData) == XorLoop(blockData[1], blockData, 2)

\* The operands: block data of the two sizes, a first byte and one run.
XorOperands == UNION {DataOfLength(size) : size \in BlockSizes}

XorArguments ==
    {[kind |-> "args", a |-> a, b |-> b, c |-> c] :
        a \in XorOperands, b \in XorOperands, c \in XorOperands}

\* R = XOR(a, b, c)
XorFirst ==
    /\ xorIn.kind = "args"
    /\ xorIn' = [xorIn EXCEPT !.kind = "xor"]
    /\ xorOut' = [kind |-> "first",
                  r |-> XorBlockData(<<xorIn.a, xorIn.b, xorIn.c>>),
                  back |-> NoCall]
    /\ UNCHANGED <<now, fromVars, diskVars, storeVars, concVars, sealVars,
                   tupleIn, tupleOut, pipe, rnd>>

\* XOR(R, b, c)
XorSecond ==
    /\ xorOut.kind = "first"
    /\ xorOut.r.kind = "ok"
    /\ xorOut' = [xorOut EXCEPT !.kind = "second",
                                !.back = XorBlockData(<<xorOut.r.data, xorIn.b, xorIn.c>>)]
    /\ UNCHANGED <<now, fromVars, diskVars, storeVars, concVars, sealVars,
                   xorIn, tupleIn, tupleOut, pipe, rnd>>

InitXor ==
    /\ IdleBase
    /\ storeBlockSize = Small
    /\ files = <<>>
    /\ dirs = {}
    /\ xorIn \in XorArguments
    /\ xorOut = NoCall
    /\ tupleIn = NoCall
    /\ tupleOut = NoCall
    /\ pipe = NoCall
    /\ rnd = NoCall

NextXor == XorFirst \/ XorSecond

SpecXor == InitXor /\ [][NextXor]_vars

EqualSized ==
    /\ BufLen(xorIn.a) = BufLen(xorIn.b)
    /\ BufLen(xorIn.b) = BufLen(xorIn.c)

\* C11: for blocks a, b, c of one size, XOR(a, b, c) has the operands' length
\* and XOR(XOR(a, b, c), b, c) is a, byte for byte, with the checksum of a.
C11_XorSelfInverse ==
    (xorOut # NoCall /\ EqualSized) =>
        /\ xorOut.r.kind = "ok"
        /\ BufLen(xorOut.r.data) = BufLen(xorIn.a)
        /\ xorOut.kind = "second" =>
              /\ xorOut.back.kind = "ok"
              /\ xorOut.back.data = xorIn.a
              /\ BufLen(xorOut.back.data) = BufLen(xorIn.a)
              /\ calculateChecksum(xorOut.back.data) = calculateChecksum(xorIn.a)

C11_Witness ==
    /\ xorOut.kind = "second"
    /\ xorOut.back.kind = "ok"
    /\ xorOut.back.data = xorIn.a
    /\ xorOut.r.data # xorIn.a
    /\ Len(xorIn.a) = 2
    /\ xorIn.b # xorIn.c
    /\ xorIn.b # xorIn.a


-----------------------------------------------------------------------------
(* BlockHandleTuple: the constructor, and xor(store, destMetadata) on a    *)
(* store that holds blocks.                                                *)

TUPLE_SIZE == 3

\* Mutant: the block sizes are compared before the length of the list.
BlockHandleTupleSizesFirst(handles) ==
    IF ~(\A i \in 1..Len(handles) : handles[i].blockSize = handles[1].blockSize)
    THEN HandleTupleError("BlockSizeMismatch")
    ELSE IF Len(handles) # TUPLE_SIZE
    THEN HandleTupleError("InvalidTupleSize")
    ELSE [kind |-> "tuple", handles |-> handles]

\* new BlockHandleTuple(handles), lines 428-440
BlockHandleTuple(handles) ==
    IF Len(handles) # TUPLE_SIZE
    THEN HandleTupleError("InvalidTupleSize")
    ELSE IF ~(\A i \in 1..Len(handles) : handles[i].blockSize = handles[1].blockSize)
    THEN HandleTupleError("BlockSizeMismatch")
    ELSE [kind |-> "tuple", handles |-> handles]

\* The handles callers build tuples of: handles of stores of the two sizes.
SomeHandles ==
    {get(size, calculateChecksum(Fill(size, q))) : size \in BlockSizes, q \in {0, 1}}

RECURSIVE ListsOf(_, _)
ListsOf(S, n) ==
    IF n = 0 THEN {<<>>}
    ELSE {<<h>> \o l : h \in S, l \in ListsOf(S, n - 1)}

HandleLists == UNION {ListsOf(SomeHandles, n) : n \in 0..(TUPLE_SIZE + 1)}

NewTuple ==
    /\ tupleIn.kind = "args"
    /\ tupleIn' = [tupleIn EXCEPT !.kind = "new"]
    /\ tupleOut' = BlockHandleTuple(tupleIn.handles)
    /\ UNCHANGED <<now, fromVars, diskVars, storeVars, concVars, sealVars,
                   xorIn, xorOut, pipe, rnd>>

InitTupleNew ==
    /\ IdleBase
    /\ storeBlockSize = Small
    /\ files = <<>>
    /\ dirs = {}
    /\ xorIn = NoCall
    /\ xorOut = NoCall
    /\ tupleIn \in {[kind |-> "args", handles |-> handles] : handles \in HandleLists}
    /\ tupleOut = NoCall
    /\ pipe = NoCall
    /\ rnd = NoCall

NextTupleNew == NewTuple

SpecTupleNew == InitTupleNew /\ [][NextTupleNew]_vars

MixedSizes(handles) ==
    \E i, j \in 1..Len(handles) : handles[i].blockSize # handles[j].blockSize

\* C13: the constructor rejects a list of a length other than TUPLE_SIZE with
\* InvalidTupleSize, the empty list and lists of mixed sizes included; a list
\* of TUPLE_SIZE handles of mixed block sizes with BlockSizeMismatch; and it
\* accepts every other list.
C13_TupleConstructor ==
    tupleIn.kind = "new" =>
        IF Len(tupleIn.handles) # TUPLE_SIZE
        THEN tupleOut = HandleTupleError("InvalidTupleSize")
        ELSE IF MixedSizes(tupleIn.handles)
        THEN tupleOut = HandleTupleError("BlockSizeMismatch")
        ELSE tupleOut.kind = "tuple" /\ tupleOut.handles = tupleIn.handles

C13_Witness ==
    /\ tupleIn.kind = "new"
    /\ Len(tupleIn.handles) = TUPLE_SIZE + 1
    /\ MixedSizes(tupleIn.handles)
    /\ tupleOut = HandleTupleError("InvalidTupleSize")


-----------------------------------------------------------------------------
(* BlockHandleTuple.xor(diskBlockStore, destBlockMetadata) on a store that *)
(* holds blocks.                                                           *)

\* handle.data: the bytes of the file at the handle's path; it throws when
\* the file is not there.
HandleData(fs, handle) ==
    IF existsSync(fs, handle.path)
    THEN [kind |-> "ok", data |-> fs[handle.path].data]
    ELSE [kind |-> "error", reason |-> "FailedToLoadBlock"]

XorFailed(fs, ds, error) ==
    [files |-> fs, dirs |-> ds, block |-> NoCall, result |-> error]

\* xor(diskBlockStore, destBlockMetadata), lines 469-535: the outcomes
\* [files, dirs, block, result] of one call. A date that is given is taken,
\* else the time of the call. A block with a creation date in the future is
\* taken to be built and then refused by setData's validate.
TupleXorOutcomes(handles, destBlockMetadata, size, fs, ds, clock) ==
    LET blockData == [i \in 1..Len(handles) |-> HandleData(fs, handles[i])]
        xored     == XorBlockData([i \in 1..Len(handles) |-> blockData[i].data])
        checksum  == calculateChecksum(xored.data)
        block     == RawDataBlock(handles[1].blockSize, xored.data,
                                  OrElse(destBlockMetadata.dateCreated, clock), checksum)
    IN  IF Len(handles) = 0
        THEN {XorFailed(fs, ds, HandleTupleError("NoBlocksToXor"))}
        ELSE IF \E i \in 1..Len(handles) : blockData[i].kind = "error"
        THEN {XorFailed(fs, ds, [kind |-> "error", reason |-> "FailedToLoadBlock"])}
        ELSE IF xored.kind = "error"
        THEN {XorFailed(fs, ds, xored)}
        ELSE {[files |-> out.files, dirs |-> out.dirs, block |-> block,
               result |-> IF out.result = Returned
                          THEN get(size, checksum)
                          ELSE [kind |-> "error", reason |-> "FailedToStoreXorResult",
                                cause |-> out.result.reason]] :
                out \in SetDataOutcomes(block, size, fs, ds, clock)}

\* The stores the tuple works on: some of the blocks of BlockData are stored,
\* written before now.
StoreHolding(size, S) ==
    [path \in {blockPath(size, calculateChecksum(data)) : data \in S} |->
        [data |-> CHOOSE data \in S : blockPath(size, calculateChecksum(data)) = path,
         birthtime |-> 0]]

DirsHolding(size, S) ==
    UNION {ensureBlockPath({}, size, calculateChecksum(data)) : data \in S}

\* The keys handles are taken for: the blocks of BlockData, stored or not,
\* and what is on disk; not a file that was left half written.
TupleKeys ==
    {key \in {calculateChecksum(data) : data \in BlockData(storeBlockSize)}
               \cup {path[4] : path \in DOMAIN files} :
        ~existsSync(files, blockPath(storeBlockSize, key))
        \/ BufLen(files[blockPath(storeBlockSize, key)].data) = storeBlockSize}

DestMetadata ==
    {[dateCreated |-> date] : date \in {Undefined, Some(0), Some(now + 1)}}

TupleXor ==
    /\ \E k1 \in TupleKeys, k2 \in TupleKeys, k3 \in TupleKeys,
          destBlockMetadata \in DestMetadata :
          LET tuple == BlockHandleTuple(<<get(storeBlockSize, k1), get(storeBlockSize, k2),
                                          get(storeBlockSize, k3)>>)
          IN  /\ tuple.kind = "tuple"
              /\ \E out \in TupleXorOutcomes(tuple.handles, destBlockMetadata,
                                             storeBlockSize, files, dirs, now) :
                    /\ files' = out.files
                    /\ dirs' = out.dirs
                    /\ tupleIn' = [kind |-> "xor", handles |-> tuple.handles,
                                   destBlockMetadata |-> destBlockMetadata,
                                   clock |-> now,
                                   blockData |-> [i \in 1..TUPLE_SIZE |->
                                                    HandleData(files, tuple.handles[i])]]
                    /\ tupleOut' = [kind |-> "xored", block |-> out.block,
                                    result |-> out.result]
    /\ UNCHANGED <<now, storeBlockSize, fromVars, storeVars, concVars, sealVars,
                   xorIn, xorOut, pipe, rnd>>

InitTuple ==
    /\ IdleBase
    /\ storeBlockSize \in BlockSizes
    /\ \E S \in SUBSET BlockData(storeBlockSize) :
          /\ files = StoreHolding(storeBlockSize, S)
          /\ dirs = DirsHolding(storeBlockSize, S)
    /\ xorIn = NoCall
    /\ xorOut = NoCall
    /\ tupleIn = NoCall
    /\ tupleOut = NoCall
    /\ pipe = NoCall
    /\ rnd = NoCall

NextTuple == TupleXor

SpecTuple == InitTuple /\ [][NextTuple]_vars

\* The handles of the call referenced stored blocks of the store's size.
OperandsStored ==
    \A i \in 1..TUPLE_SIZE :
        /\ tupleIn.blockData[i].kind = "ok"
        /\ BufLen(tupleIn.blockData[i].data) = storeBlockSize

XorOfOperands ==
    XorBlockData([i \in 1..TUPLE_SIZE |-> tupleIn.blockData[i].data]).data

\* C12: when the handles of the tuple reference stored blocks of one size,
\* xor(store, destMetadata) returns a handle whose idChecksum is the checksum
\* of the XOR of the operands, and the store then has that key. (Stated for
\* the calls whose date is not in the future and whose write does not fail.)
C12_TupleXorStores ==
    (/\ tupleIn.kind = "xor"
     /\ OperandsStored
     /\ OrElse(tupleIn.destBlockMetadata.dateCreated, tupleIn.clock) <= tupleIn.clock
     /\ ~(/\ tupleOut.result.kind = "error"
          /\ tupleOut.result.reason = "FailedToStoreXorResult"
          /\ tupleOut.result.cause = "BlockDirectoryCreationFailed"))
    => /\ tupleOut.result.kind = "handle"
       /\ tupleOut.result.idChecksum = calculateChecksum(XorOfOperands)
       /\ has(storeBlockSize, files, tupleOut.result.idChecksum)


-----------------------------------------------------------------------------
(* DiskBlockAsyncStore.xor: the promise, the streams of the pipeline and   *)
(* the handlers registered on them. One action per callback; a callback    *)
(* runs to completion.                                                     *)

\* new Date(undefined) is the invalid date: its time value is NaN, which is
\* not the time of any tick.
InvalidDate == -1

\* new Date(destBlockMetadata.dateCreated), line 166
NewDate(dateCreated) == IF dateCreated = Undefined THEN InvalidDate ELSE dateCreated[1]

\* The streams of a call on n blocks: readStreams 1..n, then xorStream,
\* checksumStream and writeStream.
XorStream(n)      == n + 1
ChecksumStream(n) == n + 2
WriteStream(n)    == n + 3
Streams(n)        == 1..(n + 3)

StreamError(stream) == [kind |-> "error", reason |-> "StreamError", stream |-> stream]

Pending == [state |-> "pending", value |-> NoCall]

\* resolve and reject of the promise: the first call settles it.
resolve(promise, value) ==
    IF promise.state = "pending" THEN [state |-> "resolved", value |-> value] ELSE promise

reject(promise, error) ==
    IF promise.state = "pending" THEN [state |-> "rejected", value |-> error] ELSE promise

\* cleanupStreams, lines 231-241: destroy() on every stream.
cleanupStreams(streams) == [s \in DOMAIN streams |-> "destroyed"]

\* Mutant: the handler rejects and leaves the streams as they are.
handleErrorNoCleanup(p, error) ==
    [p EXCEPT !.promise = reject(p.promise, error)]

\* handleError, lines 187-195
handleError(p, error) ==
    [p EXCEPT !.streams = cleanupStreams(p.streams),
              !.promise = reject(p.promise, error)]

\* The 'checksum' handler, lines 161-184, on the bytes the sink collected:
\* the states the call can be in after it. The constructor either builds
\* the block with the date it is given or throws on the invalid date.
checksumHandler(p, size, data, checksumBuffer) ==
    LET dateCreated == NewDate(p.destBlockMetadata.dateCreated)
        block == RawDataBlock(size, data, dateCreated, checksumBuffer)
        built == [p EXCEPT !.promise = resolve(p.promise, block),
                           !.streams = cleanupStreams(p.streams)]
        threw == [p EXCEPT !.promise = reject(p.promise,
                                              [kind |-> "error", reason |-> "InvalidDate"]),
                           !.streams = cleanupStreams(p.streams)]
    IN  IF dateCreated = InvalidDate THEN {built, threw} ELSE {built}

\* xor(blocks, destBlockMetadata), lines 132-202, up to the return of the
\* promise: the read streams are filled from block.fullData and the handlers
\* are registered.
XorCall ==
    /\ pipe.kind = "args"
    /\ LET blocks   == pipe.blocks
           fullData == [i \in 1..Len(blocks) |-> HandleData(files, blocks[i])]
       IN  pipe' =
             IF Len(blocks) = 0
             THEN [pipe EXCEPT !.kind = "called",
                               !.promise = reject(Pending, StoreError("NoBlocksProvided"))]
             ELSE IF \E i \in 1..Len(blocks) : fullData[i].kind = "error"
             THEN [pipe EXCEPT !.kind = "called",
                               !.promise = reject(Pending, [kind |-> "error",
                                                            reason |-> "FailedToLoadBlock"])]
             ELSE [pipe EXCEPT !.kind = "called",
                               !.promise = Pending,
                               !.streams = [s \in Streams(Len(blocks)) |-> "open"],
                               !.data = [i \in 1..Len(blocks) |-> fullData[i].data]]
    /\ UNCHANGED <<now, fromVars, diskVars, storeVars, concVars, sealVars,
                   xorIn, xorOut, tupleIn, tupleOut, rnd>>

\* A stream of the pipeline fails: it is destroyed with the error, which it
\* emits on a later tick.
StreamFails ==
    /\ pipe.kind = "called"
    /\ \E s \in DOMAIN pipe.streams :
          /\ pipe.streams[s] = "open"
          /\ pipe' = [pipe EXCEPT !.streams[s] = "destroyed",
                                  !.pending = Append(@, StreamError(s))]
    /\ UNCHANGED <<now, fromVars, diskVars, storeVars, concVars, sealVars,
                   xorIn, xorOut, tupleIn, tupleOut, rnd>>

\* The 'error' event of a stream that failed, lines 197-200: handleError.
ErrorEvent ==
    /\ pipe.kind = "called"
    /\ pipe.pending # <<>>
    /\ pipe' = [handleError(pipe, Head(pipe.pending))
                   EXCEPT !.pending = Tail(pipe.pending),
                          !.emitted = Append(pipe.emitted, Head(pipe.pending))]
    /\ UNCHANGED <<now, fromVars, diskVars, storeVars, concVars, sealVars,
                   xorIn, xorOut, tupleIn, tupleOut, rnd>>

\* The 'checksum' event, after every read stream ended and the bytes went
\* through the three streams: no stream has failed.
ChecksumEvent ==
    /\ pipe.kind = "called"
    /\ pipe.promise.state = "pending"
    /\ pipe.streams # <<>>
    /\ \A s \in DOMAIN pipe.streams : pipe.streams[s] = "open"
    /\ LET xored == XorBlockData(pipe.data)
       IN  /\ xored.kind = "ok"
           /\ pipe' \in checksumHandler(pipe, storeBlockSize, xored.data,
                                        calculateChecksum(xored.data))
    /\ UNCHANGED <<now, fromVars, diskVars, storeVars, concVars, sealVars,
                   xorIn, xorOut, tupleIn, tupleOut, rnd>>

\* The keys of the blocks of BlockData with bytes 0 and 1.
PipeKeys == {calculateChecksum(Fill(storeBlockSize, q)) : q \in {0, 1}}

PipeBlocks == UNION {ListsOf({get(storeBlockSize, key) : key \in PipeKeys}, n) : n \in 0..2}

InitPipe ==
    /\ IdleBase
    /\ storeBlockSize \in BlockSizes
    /\ \E S \in {BlockData(storeBlockSize),
                 BlockData(storeBlockSize) \ {Fill(storeBlockSize, 0)}} :
          /\ files = StoreHolding(storeBlockSize, S)
          /\ dirs = DirsHolding(storeBlockSize, S)
    /\ xorIn = NoCall
    /\ xorOut = NoCall
    /\ tupleIn = NoCall
    /\ tupleOut = NoCall
    /\ pipe \in {[kind |-> "args", blocks |-> blocks,
                  destBlockMetadata |-> destBlockMetadata,
                  clock |-> now, filesAtCall |-> files,
                  promise |-> NoCall, streams |-> <<>>, data |-> <<>>,
                  pending |-> <<>>, emitted |-> <<>>] :
                    blocks \in PipeBlocks, destBlockMetadata \in DestMetadata}
    /\ rnd = NoCall

NextPipe == XorCall \/ StreamFails \/ ErrorEvent \/ ChecksumEvent

SpecPipe == InitPipe /\ [][NextPipe]_vars

C19_XorDateCreated ==
    /\ (pipe.kind = "called" /\ pipe.promise.state = "resolved") =>
          /\ pipe.promise.value.dateCreated =
                OrElse(pipe.destBlockMetadata.dateCreated, pipe.clock)
          /\ pipe.promise.value.dateCreated # InvalidDate
    /\ (tupleIn.kind = "xor" /\ tupleOut.block # NoCall) =>
          /\ tupleOut.block.dateCreated =
                OrElse(tupleIn.destBlockMetadata.dateCreated, tupleIn.clock)
          /\ tupleOut.block.dateCreated # InvalidDate


-----------------------------------------------------------------------------
(* getRandomBlocks(count): the loop over the shard directories. The block  *)
(* files are those of files; rnd.sidecars are the paths of the blocks that *)
(* have a metadata file <hex>.m.json next to where the block file goes.    *)

MaxCount == 2

\* A directory entry of a second-level directory: <hex><suffix>
FileName(key, suffix) == [hex |-> key, suffix |-> suffix]

\* file.endsWith('.m.json')
endsWithMJson(file) == file.suffix = ".m.json"

\* Buffer.from(blockFile, 'hex'): the bytes of the leading hex digits.
BufferFromHex(file) == file.hex

\* readdirSync of the base path, of a first-level and of a second-level
\* directory: the names of the entries.
readdirBase(ds, size) ==
    {d[2] : d \in {x \in ds : Len(x) = 2 /\ x[1] = size}}

readdirFirst(ds, size, firstDir) ==
    {d[3] : d \in {x \in ds : Len(x) = 3 /\ x[1] = size /\ x[2] = firstDir}}

readdirSecond(fs, sidecars, size, firstDir, secondDir) ==
    {FileName(path[4], "") :
        path \in {x \in DOMAIN fs : SubSeq(x, 1, 3) = <<size, firstDir, secondDir>>}}
    \cup {FileName(path[4], ".m.json") :
        path \in {x \in sidecars : SubSeq(x, 1, 3) = <<size, firstDir, secondDir>>}}

\* Mutant: the metadata files are not filtered out.
blockFilesUnfiltered(fs, sidecars, size, firstDir, secondDir) ==
    readdirSecond(fs, sidecars, size, firstDir, secondDir)

\* readdirSync(secondLevelPath).filter(file => !file.endsWith('.m.json')),
\* lines 293-295
blockFilesOf(fs, sidecars, size, firstDir, secondDir) ==
    {file \in readdirSecond(fs, sidecars, size, firstDir, secondDir) : ~endsWithMJson(file)}

\* The names of a listing, as the array readdirSync returns.
RECURSIVE Listing(_)
Listing(S) ==
    IF S = {} THEN <<>>
    ELSE LET least == CHOOSE x \in S : \A y \in S : x <= y
         IN  <<least>> \o Listing(S \ {least})

\* array.splice(index, 1)
splice(array, index) ==
    SubSeq(array, 1, index - 1) \o SubSeq(array, index + 1, Len(array))

\* Lines 248-256: the base path is looked up and listed.
RndCall ==
    /\ rnd.pc = "args"
    /\ rnd' = IF <<storeBlockSize>> \notin dirs
              THEN [rnd EXCEPT !.pc = "done"]
              ELSE [rnd EXCEPT !.pc = "loop",
                               !.firstLevelDirs = Listing(readdirBase(dirs, storeBlockSize))]
    /\ UNCHANGED <<now, fromVars, diskVars, storeVars, concVars, sealVars,
                   xorIn, xorOut, tupleIn, tupleOut, pipe>>

\* Lines 259-279 of an iteration that picks firstDir.
RndPickFirst(firstDir) ==
    /\ rnd.pc = "loop"
    /\ Len(rnd.blocks) < rnd.count
    /\ \E randomFirstIndex \in 1..Len(rnd.firstLevelDirs) :
          /\ rnd.firstLevelDirs[randomFirstIndex] = firstDir
          /\ rnd' =
               IF <<storeBlockSize, firstDir>> \notin dirs
                  \/ readdirFirst(dirs, storeBlockSize, firstDir) = {}
               THEN [rnd EXCEPT !.firstLevelDirs = splice(@, randomFirstIndex)]
               ELSE [rnd EXCEPT !.pc = "second",
                                !.randomFirstIndex = randomFirstIndex]
    /\ UNCHANGED <<now, fromVars, diskVars, storeVars, concVars, sealVars,
                   xorIn, xorOut, tupleIn, tupleOut, pipe>>

\* Lines 281-309 of the iteration: secondDir is picked among the entries of
\* the first-level directory, and blockFile among its block files.
RndPickSecond(secondDir, blockFile) ==
    /\ rnd.pc = "second"
    /\ LET firstDir   == rnd.firstLevelDirs[rnd.randomFirstIndex]
           blockFiles == blockFilesOf(files, rnd.sidecars, storeBlockSize,
                                      firstDir, secondDir)
           blocks     == Append(rnd.blocks, BufferFromHex(blockFile))
       IN  /\ secondDir \in readdirFirst(dirs, storeBlockSize, firstDir)
           /\ IF <<storeBlockSize, firstDir, secondDir>> \notin dirs \/ blockFiles = {}
              THEN rnd' = [rnd EXCEPT !.pc = "loop"]
              ELSE /\ blockFile \in blockFiles
                   /\ rnd' = [rnd EXCEPT
                                !.pc = "loop",
                                !.blocks = blocks,
                                !.picked = Append(@, blockFile),
                                !.firstLevelDirs =
                                    IF Len(blocks) < rnd.count
                                    THEN splice(@, rnd.randomFirstIndex)
                                    ELSE @]
    /\ UNCHANGED <<now, fromVars, diskVars, storeVars, concVars, sealVars,
                   xorIn, xorOut, tupleIn, tupleOut, pipe>>

\* Lines 259 and 312: the loop condition is false.
RndReturn ==
    /\ rnd.pc = "loop"
    /\ ~(Len(rnd.blocks) < rnd.count /\ Len(rnd.firstLevelDirs) > 0)
    /\ rnd' = [rnd EXCEPT !.pc = "done"]
    /\ UNCHANGED <<now, fromVars, diskVars, storeVars, concVars, sealVars,
                   xorIn, xorOut, tupleIn, tupleOut, pipe>>

\* The names of the shard directories and of the files in them.
DirNames == 0..2
RndKeys == {calculateChecksum(data) : data \in BlockData(Message)}
FileNames == {FileName(key, suffix) : key \in RndKeys, suffix \in {"", ".m.json"}}

\* What there is on disk for a key: nothing; its first-level directory; its
\* two directories and no file (a setData whose write failed); its metadata
\* file; its block file; both.
KeyStates == {"absent", "top", "empty", "sidecar", "block", "both"}

TreeDirs(size, st) ==
    UNION {{SubSeq(blockDir(size, key), 1, i) :
                i \in 1..(IF st[key] = "top" THEN 2 ELSE 3)} :
           key \in {k \in DOMAIN st : st[k] # "absent"}}

InitRandom ==
    /\ IdleBase
    /\ storeBlockSize = Message
    /\ \E st \in [RndKeys -> KeyStates], count \in 0..MaxCount :
          /\ files = StoreHolding(storeBlockSize,
                        {data \in BlockData(storeBlockSize) :
                            st[calculateChecksum(data)] \in {"block", "both"}})
          /\ dirs \in IF \A key \in RndKeys : st[key] = "absent"
                      THEN {{}, {<<storeBlockSize>>}}
                      ELSE {TreeDirs(storeBlockSize, st)}
          /\ rnd = [pc |-> "args", count |-> count, blocks |-> <<>>, picked |-> <<>>,
                    firstLevelDirs |-> <<>>, randomFirstIndex |-> 0,
                    sidecars |-> {blockPath(storeBlockSize, key) :
                                    key \in {k \in RndKeys : st[k] \in {"sidecar", "both"}}}]
    /\ xorIn = NoCall
    /\ xorOut = NoCall
    /\ tupleIn = NoCall
    /\ tupleOut = NoCall
    /\ pipe = NoCall

NextRandom ==
    \/ RndCall
    \/ \E firstDir \in DirNames : RndPickFirst(firstDir)
    \/ \E secondDir \in DirNames, blockFile \in FileNames :
          RndPickSecond(secondDir, blockFile)
    \/ RndReturn

SpecRandom == InitRandom /\ [][NextRandom]_vars

\* An iteration that gets somewhere: a block is pushed or a directory is
\* removed from the candidates.
RndProgress ==
    /\ NextRandom
    /\ rnd'.blocks # rnd.blocks \/ rnd'.firstLevelDirs # rnd.firstLevelDirs

\* The call runs on, and Math.random does not avoid for ever a first-level
\* directory, or an entry with which the iteration gets somewhere.
FairRandom ==
    /\ WF_vars(NextRandom)
    /\ \A firstDir \in DirNames : SF_vars(RndPickFirst(firstDir))
    /\ SF_vars(RndProgress)

SpecRandomFair == InitRandom /\ [][NextRandom]_vars /\ FairRandom

\* C15: getRandomBlocks(count) returns in the end, whatever the count and the
\* content of the directory tree.
C15_RandomBlocksReturns == <>(rnd.pc = "done")

\* C16: getRandomBlocks(count) returns at most count checksums, each the name
\* of a block file that is in the store, none taken from a .m.json file.
C16_RandomBlocksArePresent ==
    rnd.pc = "done" =>
        /\ Len(rnd.blocks) <= rnd.count
        /\ \A i \in 1..Len(rnd.blocks) :
              /\ has(storeBlockSize, files, rnd.blocks[i])
              /\ ~endsWithMJson(rnd.picked[i])

C16_Witness ==
    /\ rnd.pc = "done"
    /\ rnd.count = 2
    /\ Len(rnd.blocks) = 2
    /\ rnd.sidecars # {}
    /\ \E path \in rnd.sidecars : path \notin DOMAIN files


=============================================================================
